---- MODULE Spec2Model ----
(***************************************************************************)
(* A model of the medical 2D-to-3D converter (server/medical_3d_converter  *)
(* .py) and of its REST front end (server/api_server.py).                  *)
(*                                                                         *)
(* Volumes, masks and label images are arrays over a small voxel grid in   *)
(* C (raster) order: voxel i has coordinates (ZOf(i), YOf(i), XOf(i)) and  *)
(* the array index order is the integer order of the voxels.  A mask is    *)
(* the set of its non-zero voxels.                                         *)
(***************************************************************************)
EXTENDS Integers, Sequences, FiniteSets, TLC

\* ------------------------------------------------------------------ bounds
\* The shape (depth, height, width) of every volume of the model.
DimZ == 8
DimY == 3
DimX == 3

NVox == DimZ * DimY * DimX
Voxels == 0 .. (NVox - 1)

ZOf(v) == v \div (DimY * DimX)
YOf(v) == (v \div DimX) % DimY
XOf(v) == v % DimX
Vox(z, y, x) == (z * DimY + y) * DimX + x

Abs(n) == IF n < 0 THEN -n ELSE n
MinOf(S) == CHOOSE m \in S : \A n \in S : m <= n
MaxOf(S) == CHOOSE m \in S : \A n \in S : n <= m

\* Python's None, and a value that is present: an optional value is None or
\* Some(x), and Val(opt) is the x of Some(x).
None == <<>>
Some(x) == <<x>>
Val(opt) == opt[1]

\* ------------------------------------------------- scipy.ndimage structures
\* generate_binary_structure(3, 1): a voxel and its 6 face neighbours.
\* Cross[v] is the set of grid voxels the structure covers when centred on v;
\* CrossInside[v] says whether the whole structure lies inside the grid.
CrossOffsets == {<<0, 0, 0>>, <<1, 0, 0>>, <<-1, 0, 0>>, <<0, 1, 0>>,
                 <<0, -1, 0>>, <<0, 0, 1>>, <<0, 0, -1>>}

InGrid(z, y, x) == /\ z >= 0 /\ z < DimZ
                   /\ y >= 0 /\ y < DimY
                   /\ x >= 0 /\ x < DimX

Shifted(v, Offsets) ==
    {Vox(ZOf(v) + o[1], YOf(v) + o[2], XOf(v) + o[3]) :
        o \in {p \in Offsets : InGrid(ZOf(v) + p[1], YOf(v) + p[2], XOf(v) + p[3])}}

Cross == [v \in Voxels |-> Shifted(v, CrossOffsets)]

CrossInside == [v \in Voxels |-> Cardinality(Cross[v]) = Cardinality(CrossOffsets)]

\* The 26-neighbourhood (face, edge and corner neighbours) and the voxel.
CubeOffsets == {<<a, b, c>> : a \in {-1, 0, 1}, b \in {-1, 0, 1}, c \in {-1, 0, 1}}

Cube == [v \in Voxels |-> Shifted(v, CubeOffsets)]

\* ndimage.binary_erosion(mask, struct), border_value = 0: a voxel stays when
\* the structure centred on it lies inside the mask; what is outside the grid
\* counts as background.
binary_erosion(mask) == {v \in mask : CrossInside[v] /\ Cross[v] \subseteq mask}

\* ndimage.binary_dilation(mask, struct), border_value = 0.
binary_dilation(mask) == {v \in Voxels : Cross[v] \cap mask # {}}

\* ndimage.binary_opening: erosion, then dilation.
binary_opening(mask) == binary_dilation(binary_erosion(mask))

\* ndimage.binary_closing: dilation, then erosion.
binary_closing(mask) == binary_erosion(binary_dilation(mask))

\* The voxels of S reachable from the voxels of `from` by steps inside S to a
\* neighbour under the neighbourhood nb (Cross or Cube).
RECURSIVE Reach(_, _, _)
Reach(S, from, nb) ==
    LET next == (UNION {nb[v] : v \in from}) \cap S
    IN  IF next \subseteq from THEN from ELSE Reach(S, from \cup next, nb)

\* ndimage.label(mask) with its default structure (generate_binary_structure
\* (3, 1), face neighbours): the components in the order label numbers them,
\* by the first voxel of each in raster order.  Component k of the sequence
\* carries label k; background carries label 0.
RECURSIVE Components(_)
Components(S) ==
    IF S = {} THEN <<>>
    ELSE LET c == Reach(S, {MinOf(S)}, Cross)
         IN  <<c>> \o Components(S \ c)

label(mask) ==
    LET comps == Components(mask)
    IN  [labeled |-> [v \in Voxels |->
                        IF v \in mask
                        THEN CHOOSE k \in 1 .. Len(comps) : v \in comps[k]
                        ELSE 0],
         num |-> Len(comps)]

\* ------------------------------------------------------- results of a call
\* A call returns a value or raises: err is NoError or the exception raised.
NoError == ""
Ok(x) == [err |-> NoError, val |-> x]
Raise(e) == [err |-> e, val |-> None]

\* The exceptions of the model, by the message or the type the code raises.
ErrNoDicom == "ValueError: No valid DICOM files"
ErrNoPng == "ValueError: No PNG files found"
ErrDecode == "imread: cannot decode file"
ErrLoadFirst == "ValueError: Load data first"
ErrSegmentFirst == "ValueError: Segment first"
ErrExtractFirst == "ValueError: Extract surface first"
ErrUnknownFormat == "ValueError: Unknown format"
ErrIndex == "IndexError: index 0 is out of bounds for axis 0 with size 0"
ErrLevel == "ValueError: Surface level must be within volume data range"

\* ------------------------------------------------------------ segmentation
\* volume[::2, ::2, ::2]: the voxels whose three coordinates are even.
Downsampled == {v \in Voxels : ZOf(v) % 2 = 0 /\ YOf(v) % 2 = 0 /\ XOf(v) % 2 = 0}

RECURSIVE SumLevels(_, _, _)
SumLevels(volume, sample, L) ==
    IF L = {} THEN 0
    ELSE LET l == MinOf(L)
         IN  l * Cardinality({v \in sample : volume[v] = l})
               + SumLevels(volume, sample, L \ {l})

\* skimage.filters.threshold_otsu on the sample: a one-valued sample yields
\* that value; otherwise the first cut, taken at a level of the sample, that
\* maximises the between-class variance w0 * w1 * (mu0 - mu1)^2, compared
\* here as the fraction (s0*n1 - s1*n0)^2 / (n0*n1).  The library returns the
\* centre of the histogram bin of that level, which separates the integer
\* intensities of the model exactly as the level does.
threshold_otsu(volume, sample) ==
    LET levels == {volume[v] : v \in sample}
        n0(t) == Cardinality({v \in sample : volume[v] <= t})
        n1(t) == Cardinality({v \in sample : volume[v] > t})
        s0(t) == SumLevels(volume, sample, {l \in levels : l <= t})
        s1(t) == SumLevels(volume, sample, {l \in levels : l > t})
        num(t) == (s0(t) * n1(t) - s1(t) * n0(t)) * (s0(t) * n1(t) - s1(t) * n0(t))
        den(t) == n0(t) * n1(t)
        cuts == levels \ {MaxOf(levels)}
        best == {t \in cuts : \A u \in cuts : num(t) * den(u) >= num(u) * den(t)}
    IN  IF Cardinality(levels) = 1 THEN MinOf(levels) ELSE MinOf(best)

\* OrganSegmentation.threshold_segmentation: the voxels above the cut-off,
\* the caller's or Otsu's on the downsampled volume.
threshold_segmentation(volume, threshold) ==
    LET cut == IF threshold = None THEN threshold_otsu(volume, Downsampled)
               ELSE Val(threshold)
    IN  {v \in Voxels : volume[v] > cut}

\* The default seed: tuple(s // 2 for s in volume.shape).
CentreVoxel == Vox(DimZ \div 2, DimY \div 2, DimX \div 2)

\* A region growing that keeps every voxel within tolerance, connected to the
\* seed or not.
fast_region_growing_unconnected(volume, seed_point, tolerance) ==
    LET seed == IF seed_point = None THEN CentreVoxel ELSE Val(seed_point)
    IN  {v \in Voxels : Abs(volume[v] - volume[seed]) <= tolerance}

\* OrganSegmentation.fast_region_growing: the voxels that carry the label of
\* the seed in the labelling of the voxels within tolerance of the seed value.
fast_region_growing(volume, seed_point, tolerance) ==
    LET seed == IF seed_point = None THEN CentreVoxel ELSE Val(seed_point)
        seed_value == volume[seed]
        similarity_mask == {v \in Voxels : Abs(volume[v] - seed_value) <= tolerance}
        lab == label(similarity_mask)
        seed_label == lab.labeled[seed]
    IN  {v \in Voxels : lab.labeled[v] = seed_label}

\* OrganSegmentation.morphological_cleanup, fast mode: opening, closing, then
\* the size filter.  sizes and mask_sizes are arrays indexed from 0, entry j
\* for label j + 1; the result takes, at every voxel, the entry of mask_sizes
\* at index (labeled - 1).clip(0).  Indexing the empty array raises.
morphological_cleanup(mask, remove_small) ==
    LET opened == binary_opening(mask)
        closed == binary_closing(opened)
        lab == label(closed)
        sizes == [j \in 0 .. (lab.num - 1) |->
                    Cardinality({v \in closed : lab.labeled[v] = j + 1})]
        mask_sizes == [j \in 0 .. (lab.num - 1) |-> sizes[j] >= remove_small]
        clipped(v) == IF lab.labeled[v] - 1 < 0 THEN 0 ELSE lab.labeled[v] - 1
    IN  IF lab.num = 0
        THEN Raise(ErrIndex)
        ELSE Ok({v \in Voxels : mask_sizes[clipped(v)]})


\* ------------------------------------------------------------ series loads
\* A file of a directory: its name (order is the rank of the name in sorted
\* order) and extension, whether pydicom.dcmread and whether skimage's imread
\* can decode it, and what it holds: the slice
\* position ImagePositionPatient[2] (None when the attribute is absent), the
\* stored pixel value (one value stands for the slice's pixel array), and the
\* rescale <<RescaleSlope, RescaleIntercept>> (None when absent).
File(order, name, ext, dicom, image, position, pixels, rescale) ==
    [order |-> order, name |-> name, ext |-> ext, dicom |-> dicom, image |-> image,
     position |-> position, pixels |-> pixels, rescale |-> rescale]

\* glob.glob(os.path.join(directory, '*' + ext)): the files of the listing
\* whose name ends with ext, in the order the directory lists them.
glob(dir, ext) == SelectSeq(dir, LAMBDA f : ext = "" \/ f.ext = ext)

\* list.sort(key = ...) and sorted(): a stable sort of seq, keys[i] being the
\* key of seq[i].  Element i lands behind the elements of smaller key and the
\* earlier ones of equal key.
SortBy(seq, keys) ==
    LET rank(i) == Cardinality({j \in 1 .. Len(seq) :
                                  \/ keys[j] < keys[i]
                                  \/ keys[j] = keys[i] /\ j < i}) + 1
    IN  [k \in 1 .. Len(seq) |-> seq[CHOOSE i \in 1 .. Len(seq) : rank(i) = k]]

\* seq[::step]: the elements at the 0-based indices 0, step, 2*step, ...
Stride(seq, step) ==
    [k \in 1 .. ((Len(seq) + step - 1) \div step) |-> seq[(k - 1) * step + 1]]

\* if len(seq) > max_slices: step = len(seq) // max_slices; seq = seq[::step]
Subsample(seq, max_slices) ==
    IF Len(seq) > max_slices THEN Stride(seq, Len(seq) \div max_slices) ELSE seq

\* ThreadPoolExecutor(max_workers = 8).
MaxWorkers == 8

\* MedicalImageReader._read_single_dicom: (pos, pixel_array, ds), or None
\* when anything raises.
read_single_dicom(f) ==
    IF f.dicom
    THEN Some([pos |-> IF f.position = None THEN 0 ELSE Val(f.position),
               pixel_array |-> f.pixels, ds |-> f])
    ELSE None

\* read_dicom_series, the files it will read: the matches of the four
\* patterns, one after the other.
DicomFiles(dir) ==
    glob(dir, ".dcm") \o glob(dir, ".DCM") \o glob(dir, ".dicom") \o glob(dir, "")

\* A stacking that leaves the slices in the order of the files.
StackDicomUnsorted(read, max_slices) ==
    LET valid == SelectSeq(read, LAMBDA r : r # None)
        kept == Subsample(valid, max_slices)
    IN  IF valid = <<>>
        THEN Raise(ErrNoDicom)
        ELSE Ok([slices |-> [k \in 1 .. Len(kept) |-> Val(kept[k]).ds.name],
                 volume |-> [k \in 1 .. Len(kept) |-> Val(kept[k]).pixel_array]])

\* read_dicom_series, from the results of the reads (in the order of the
\* files, as executor.map yields them) to the volume: drop the failed reads,
\* sort by position, subsample, stack, and rescale the stacked volume by the
\* slope and intercept of the first slice's dataset.
StackDicom(read, max_slices) ==
    LET found == SelectSeq(read, LAMBDA r : r # None)
        valid == SortBy(found, [k \in 1 .. Len(found) |-> Val(found[k]).pos])
        kept == Subsample(valid, max_slices)
        ds == Val(kept[1]).ds
        stacked == [k \in 1 .. Len(kept) |-> Val(kept[k]).pixel_array]
    IN  IF valid = <<>>
        THEN Raise(ErrNoDicom)
        ELSE Ok([slices |-> [k \in 1 .. Len(kept) |-> Val(kept[k]).ds.name],
                 volume |-> IF ds.rescale # None
                            THEN [k \in 1 .. Len(kept) |->
                                    stacked[k] * Val(ds.rescale)[1] + Val(ds.rescale)[2]]
                            ELSE stacked])

\* read_png_series, the files it will read: the sorted matches of the
\* pattern, subsampled.  File names sort as the model's names do.
PngFiles(dir, max_slices) ==
    LET png_files == glob(dir, ".png")
    IN  Subsample(SortBy(png_files, [k \in 1 .. Len(png_files) |-> png_files[k].order]),
                  max_slices)

\* imread(f, as_gray = True): the image, or the exception of a file that does
\* not decode.
read_png(f) == IF f.image THEN Ok(f.pixels) ELSE Raise(ErrDecode)

\* read_png_series, from the results of the reads to the volume:
\* list(executor.map(...)) raises the exception of the first read that
\* raised; otherwise the slices are stacked, and scaled by 255 when no value
\* exceeds 1.
StackPng(fs, read) ==
    LET failed == {k \in 1 .. Len(read) : read[k].err # NoError}
        stacked == [k \in 1 .. Len(read) |-> read[k].val]
    IN  IF failed # {}
        THEN Raise(read[MinOf(failed)].err)
        ELSE Ok([slices |-> [k \in 1 .. Len(fs) |-> fs[k].name],
                 volume |-> IF \A k \in 1 .. Len(stacked) : stacked[k] <= 1
                            THEN [k \in 1 .. Len(stacked) |-> stacked[k] * 255]
                            ELSE stacked])


\* --------------------------------------------------------- surface and mesh
\* skimage.measure.marching_cubes raises when the level lies outside the range
\* of the smoothed mask, and when it finds no triangle.
ErrNoSurface == "RuntimeError: No surface found at the given iso value"

\* The foreground voxels with a background face neighbour.
Surface(mask) == {v \in mask : Cross[v] \ mask # {}}

\* The elements of a set of numbers in ascending order.
Ascending(S) ==
    [k \in 1 .. Cardinality(S) |->
        CHOOSE v \in S : Cardinality({u \in S : u < v}) = k - 1]

\* A vertex at a voxel: its coordinates times the spacing, not yet relaxed
\* by any smoothing.
Vertex(v, spacing) ==
    [at |-> <<ZOf(v) * spacing[1], YOf(v) * spacing[2], XOf(v) * spacing[3]>>,
     relaxed |-> 0]

\* vertices, faces and normals over the surface voxels `at`: triangles run
\* through consecutive vertices (0-based indices), one normal per vertex.
Triangulated(at, spacing) ==
    [vertices |-> [k \in 1 .. Len(at) |-> Vertex(at[k], spacing)],
     faces |-> [k \in 1 .. (Len(at) - 2) |-> <<k - 1, k, k + 1>>],
     normals |-> [k \in 1 .. Len(at) |-> [of |-> Vertex(at[k], spacing).at]]]

\* SurfaceExtraction.marching_cubes.  The library's triangulation is kept
\* only in outline: the surface passes by the foreground voxels that have a
\* background face neighbour, and the mesh has one vertex for each of them in
\* raster order.  An empty or a full mask holds no level 0.5 after smoothing.
marching_cubes(mask, spacing) ==
    IF mask = {} \/ mask = Voxels
    THEN Raise(ErrLevel)
    ELSE IF Cardinality(Surface(mask)) < 3
    THEN Raise(ErrNoSurface)
    ELSE Ok(Triangulated(Ascending(Surface(mask)), spacing))

\* The triangles vtkQuadricDecimation leaves of faces for a reduction given
\* in percent, kept only in outline: that share of the triangles is dropped.
Decimated(faces, target_reduction) ==
    SubSeq(faces, 1, Len(faces) - (Len(faces) * target_reduction) \div 100)

\* The point ids the triangles use.
PointsOf(faces) == {faces[k][i] : k \in 1 .. Len(faces), i \in 1 .. 3}

\* The output of the decimation: the points in use, and the triangles
\* renumbered to them.
Renumbered(vertices, faces, used) ==
    [vertices |-> [k \in 1 .. Cardinality(used) |-> vertices[1 + Ascending(used)[k]]],
     faces |-> [k \in 1 .. Len(faces) |->
                  [i \in 1 .. 3 |-> Cardinality({u \in used : u < faces[k][i]})]]]

\* SurfaceExtraction.simplify_mesh with a reduction given in percent.
\* Without VTK the mesh is returned as it is.
simplify_mesh(vtk, vertices, faces, target_reduction) ==
    IF ~vtk
    THEN [vertices |-> vertices, faces |-> faces]
    ELSE Renumbered(vertices, Decimated(faces, target_reduction),
                    PointsOf(Decimated(faces, target_reduction)))

\* The points that share a triangle with point id.
NeighboursOf(faces, id) ==
    {faces[k][i] : k \in {n \in 1 .. Len(faces) : \E i \in 1 .. 3 : faces[n][i] = id},
                   i \in 1 .. 3} \ {id}

\* SurfaceExtraction.smooth_mesh: vtkSmoothPolyDataFilter moves every point
\* towards its neighbours, once per iteration, and returns the points alone.
\* Kept only in outline: a point is relaxed by the number of its neighbours
\* at each iteration, and a point without neighbours stays.
smooth_mesh(vtk, vertices, faces, iterations) ==
    IF ~vtk THEN vertices
    ELSE [k \in 1 .. Len(vertices) |->
            [vertices[k] EXCEPT !.relaxed =
                @ + iterations * Cardinality(NeighboursOf(faces, k - 1))]]

\* -------------------------------------------------------------- binary STL
\* 2^n.
RECURSIVE Pow2(_)
Pow2(n) == IF n = 0 THEN 1 ELSE 2 * Pow2(n - 1)

\* The exponent of the leading bit of a whole number m, 1 <= m < 2^30.
Log2(m) == CHOOSE e \in 0 .. 29 : Pow2(e) <= m /\ m < Pow2(e + 1)

\* The significand of a float32 has 24 bits.
SignificandBits == 24

\* m to the nearest multiple of ulp, a tie to the even multiple.
RoundTo(m, ulp) ==
    IF 2 * (m % ulp) > ulp \/ (2 * (m % ulp) = ulp /\ (m \div ulp) % 2 = 1)
    THEN (m \div ulp + 1) * ulp
    ELSE (m \div ulp) * ulp

\* The nearest whole number that a significand of 24 bits represents, ties
\* to the even significand, for m >= 0.
Round24(m) ==
    IF m < Pow2(SignificandBits) THEN m
    ELSE RoundTo(m, Pow2(Log2(m) + 1 - SignificandBits))

\* ndarray.astype(np.float32) on a float64 that is a whole number.
float32(x) == IF x < 0 THEN 0 - Round24(0 - x) ELSE Round24(x)

\* Exponent field and fraction field of the float32 m whose leading bit has
\* exponent e.
Fields(m, e) ==
    (e + 127) * Pow2(23)
        + (IF e <= 23 THEN (m - Pow2(e)) * Pow2(23 - e)
           ELSE (m - Pow2(e)) \div Pow2(e - 23))

\* The low 31 bits (exponent and fraction) of the float32 m, m >= 0.
Float32Bits(m) == IF m = 0 THEN 0 ELSE Fields(m, Log2(m))

\* The four bytes of a 32-bit word, least significant first, the word given
\* by its low 31 bits and its top bit.
WordBytes(low, top) ==
    <<low % 256, (low \div 256) % 256, (low \div 65536) % 256,
      (low \div 16777216) + 128 * top>>

\* tobytes() of a float32 (little-endian hosts).
Float32Bytes(y) ==
    IF y < 0 THEN WordBytes(Float32Bits(0 - y), 1) ELSE WordBytes(Float32Bits(y), 0)

\* tobytes() of three float32.
Float32x3(p) ==
    Float32Bytes(float32(p[1])) \o Float32Bytes(float32(p[2]))
        \o Float32Bytes(float32(p[3]))

\* struct.unpack('f', ...) of four bytes, in whole numbers: the value of the
\* float32 with its fraction dropped.
UnpackFloat(b) ==
    LET low == b[1] + 256 * b[2] + 65536 * b[3] + 16777216 * (b[4] % 128)
        e == low \div Pow2(23) - 127
        significand == Pow2(23) + (low % Pow2(23))
        whole == IF low = 0 \/ e < 0 THEN 0
                 ELSE IF e >= 23 THEN significand * Pow2(e - 23)
                 ELSE significand \div Pow2(23 - e)
    IN  IF b[4] >= 128 THEN 0 - whole ELSE whole

\* struct.unpack('I', ...) of four bytes (little-endian hosts), below 2^31.
UnpackUint(b) == b[1] + 256 * b[2] + 65536 * b[3] + 16777216 * b[4]

\* b'Binary STL - Fast Export' + b'\0' * 56.
StlHeader ==
    <<66, 105, 110, 97, 114, 121, 32, 83, 84, 76, 32, 45, 32, 70, 97, 115, 116,
      32, 69, 120, 112, 111, 114, 116>> \o [k \in 1 .. 56 |-> 0]

\* The position of a vertex as numbers: its coordinates, moved by one unit
\* along every axis by each iteration that relaxed it.
Position(vertex) == [i \in 1 .. 3 |-> vertex.at[i] + vertex.relaxed]

Sign(n) == IF n > 0 THEN 1 ELSE IF n < 0 THEN 0 - 1 ELSE 0

\* np.cross(v1 - v0, v2 - v0) of a triangle of positions.
Cross3(t) ==
    <<(t[2][2] - t[1][2]) * (t[3][3] - t[1][3]) - (t[2][3] - t[1][3]) * (t[3][2] - t[1][2]),
      (t[2][3] - t[1][3]) * (t[3][1] - t[1][1]) - (t[2][1] - t[1][1]) * (t[3][3] - t[1][3]),
      (t[2][1] - t[1][1]) * (t[3][2] - t[1][2]) - (t[2][2] - t[1][2]) * (t[3][1] - t[1][1])>>

\* normals / norms, kept only in outline: the signs of the components of the
\* cross product, which is the unit normal of a triangle that lies in a plane
\* of the coordinates, and zero for a degenerate triangle.
UnitNormal(t) == [i \in 1 .. 3 |-> Sign(Cross3(t)[i])]

\* A record without its attribute.
StlRecordShort(normal, t) ==
    Float32x3(normal) \o Float32x3(t[1]) \o Float32x3(t[2]) \o Float32x3(t[3])

\* One element of records: normal, v0, v1, v2 as float32 and a uint16
\* attribute left at zero.
StlRecord(normal, t) ==
    Float32x3(normal) \o Float32x3(t[1]) \o Float32x3(t[2]) \o Float32x3(t[3])
        \o <<0, 0>>

\* records.tobytes(): the records one after the other.
RECURSIVE RecordBytes(_)
RecordBytes(triangles) ==
    IF triangles = <<>> THEN <<>>
    ELSE StlRecord(UnitNormal(Head(triangles)), Head(triangles))
            \o RecordBytes(Tail(triangles))

\* The bytes export_stl writes in binary mode: header, np.uint32(n_faces),
\* records.
BinaryStl(triangles) ==
    StlHeader \o WordBytes(Len(triangles), 0) \o RecordBytes(triangles)

\* ------------------------------------------------------------------ export
\* str.lower() on the format names and the file suffixes of the model.
lower(format) ==
    IF format = "STL" THEN "stl" ELSE IF format = "OBJ" THEN "obj"
    ELSE IF format = ".STL" THEN ".stl" ELSE IF format = ".OBJ" THEN ".obj"
    ELSE format

\* if not filename.lower().endswith(suffix): filename += suffix.  A file
\* name is its base, a sequence of parts, and its last suffix; when a suffix
\* is added, the suffix the name had becomes a part of the base.
WithSuffix(filename, suffix) ==
    IF lower(filename.ext) = suffix THEN filename
    ELSE [base |-> Append(filename.base, filename.ext), ext |-> suffix]

\* triangles = vertices[faces], as positions.
TrianglesOf(vertices, faces) ==
    [k \in 1 .. Len(faces) |-> [i \in 1 .. 3 |-> Position(vertices[faces[k][i] + 1])]]

\* ModelExporter.export_stl, binary.
export_stl(vertices, faces, filename) ==
    [name |-> WithSuffix(filename, ".stl"),
     content |-> [format |-> "stl", bytes |-> BinaryStl(TrianglesOf(vertices, faces))]]

\* An export_obj that writes the faces as the mesh numbers them, from 0.
export_obj_from_zero(vertices, faces, filename) ==
    [name |-> WithSuffix(filename, ".obj"),
     content |-> [format |-> "obj", v |-> vertices, f |-> faces]]

\* ModelExporter.export_obj: a 'v' line per vertex, an 'f' line per face with
\* the indices faces + 1.
export_obj(vertices, faces, filename) ==
    [name |-> WithSuffix(filename, ".obj"),
     content |-> [format |-> "obj",
                  v |-> vertices,
                  f |-> [k \in 1 .. Len(faces) |->
                           [i \in 1 .. 3 |-> faces[k][i] + 1]]]]

\* ------------------------------------------------------- Medical3DConverter
\* Medical3DConverter.__init__.
NewConverter ==
    [volume |-> None, spacing |-> None, mask |-> None,
     vertices |-> None, faces |-> None, normals |-> None]

\* What a method call leaves: the converter, the files on disk, and the
\* exception it raised (NoError when it returned).
Outcome(c, d, e) == [conv |-> c, disk |-> d, err |-> e]

\* load_dicom, load_png and load_image: the reader's volume and spacing are
\* assigned, or the reader's exception passes through.
load(c, d, read) ==
    IF read.err # NoError
    THEN Outcome(c, d, read.err)
    ELSE Outcome([c EXCEPT !.volume = Some(read.val.volume),
                           !.spacing = Some(read.val.spacing)], d, NoError)

\* The minimum component size morphological_cleanup is called with (its
\* default remove_small = 500), scaled to the grid of the model.
RemoveSmallDefault == 3

\* segment, second statement: self.mask = morphological_cleanup(self.mask);
\* when the cleanup raises, self.mask keeps what the first statement assigned.
Cleaned(c, d, cleaned) ==
    IF cleaned.err # NoError
    THEN Outcome(c, d, cleaned.err)
    ELSE Outcome([c EXCEPT !.mask = Some(cleaned.val)], d, NoError)

\* segment, first statement: self.mask = the mask of the chosen method.
Masked(c, d, first) ==
    Cleaned([c EXCEPT !.mask = Some(first)], d,
            morphological_cleanup(first, RemoveSmallDefault))

\* Medical3DConverter.segment (fast_mode = True).  kwargs are the keyword
\* arguments passed on to fast_region_growing.
segment(c, d, method, threshold, kwargs) ==
    IF c.volume = None
    THEN Outcome(c, d, ErrLoadFirst)
    ELSE IF method = "region_growing"
    THEN Masked(c, d, fast_region_growing(Val(c.volume), kwargs.seed_point,
                                          kwargs.tolerance))
    ELSE Masked(c, d, threshold_segmentation(Val(c.volume), threshold))

\* A smoothing step that takes no iterations for the default number of them.
SmoothedOrDefault(vtk, c, smooth_iterations) ==
    [c EXCEPT !.vertices =
        Some(smooth_mesh(vtk, Val(c.vertices), Val(c.faces),
                         IF smooth_iterations > 0 THEN smooth_iterations ELSE 10))]

\* extract_surface, third statement: if smooth_iterations > 0, the vertices
\* are replaced by the smoothed ones.
Smoothed(vtk, c, smooth_iterations) ==
    IF smooth_iterations > 0
    THEN [c EXCEPT !.vertices = Some(smooth_mesh(vtk, Val(c.vertices), Val(c.faces),
                                                 smooth_iterations))]
    ELSE c

\* self.vertices, self.faces = a simplified mesh.
WithMesh(c, mesh) ==
    [c EXCEPT !.vertices = Some(mesh.vertices), !.faces = Some(mesh.faces)]

\* extract_surface, second statement: if simplify > 0, vertices and faces
\* are replaced by the simplified ones.
Simplified(vtk, c, simplify) ==
    IF simplify > 0
    THEN WithMesh(c, simplify_mesh(vtk, Val(c.vertices), Val(c.faces), simplify))
    ELSE c

\* An extract_surface that smooths the mesh of marching cubes and decimates
\* it afterwards.
ExtractedSmoothFirst(vtk, c, d, mc, simplify, smooth_iterations) ==
    IF mc.err # NoError
    THEN Outcome(c, d, mc.err)
    ELSE Outcome(Simplified(vtk,
                            Smoothed(vtk,
                                     [c EXCEPT !.vertices = Some(mc.val.vertices),
                                               !.faces = Some(mc.val.faces),
                                               !.normals = Some(mc.val.normals)],
                                     smooth_iterations),
                            simplify),
                 d, NoError)

\* extract_surface, first statement: vertices, faces and normals are assigned
\* from marching_cubes, whose exception passes through.
Extracted(vtk, c, d, mc, simplify, smooth_iterations) ==
    IF mc.err # NoError
    THEN Outcome(c, d, mc.err)
    ELSE Outcome(Smoothed(vtk,
                          Simplified(vtk,
                                     [c EXCEPT !.vertices = Some(mc.val.vertices),
                                               !.faces = Some(mc.val.faces),
                                               !.normals = Some(mc.val.normals)],
                                     simplify),
                          smooth_iterations),
                 d, NoError)

\* Medical3DConverter.extract_surface; simplify is in percent.
extract_surface(vtk, c, d, simplify, smooth_iterations) ==
    IF c.mask = None
    THEN Outcome(c, d, ErrSegmentFirst)
    ELSE Extracted(vtk, c, d, marching_cubes(Val(c.mask), Val(c.spacing)),
                   simplify, smooth_iterations)

\* open(filename, 'w'): the file is created or replaced.
Written(d, file) == {f \in d : f.name # file.name} \cup {file}

\* An export that takes every format it does not know for STL.
export_any_format(c, d, filename, format) ==
    IF c.vertices = None
    THEN Outcome(c, d, ErrExtractFirst)
    ELSE IF lower(format) = "obj"
    THEN Outcome(c, Written(d, export_obj(Val(c.vertices), Val(c.faces), filename)), NoError)
    ELSE Outcome(c, Written(d, export_stl(Val(c.vertices), Val(c.faces), filename)), NoError)

\* Medical3DConverter.export.
export(c, d, filename, format) ==
    IF c.vertices = None
    THEN Outcome(c, d, ErrExtractFirst)
    ELSE IF lower(format) = "stl"
    THEN Outcome(c, Written(d, export_stl(Val(c.vertices), Val(c.faces), filename)), NoError)
    ELSE IF lower(format) = "obj"
    THEN Outcome(c, Written(d, export_obj(Val(c.vertices), Val(c.faces), filename)), NoError)
    ELSE Outcome(c, d, ErrUnknownFormat)

\* The arguments the calls of convert_fast leave to their defaults:
\* segment(method = 'otsu', threshold = None), extract_surface(simplify = 0.5,
\* smooth_iterations = 10), export(format = 'stl').
NoKwargs == [seed_point |-> None, tolerance |-> 0]
SimplifyDefault == 50
SmoothDefault == 10

\* Medical3DConverter.convert_fast: load_image, segment, extract_surface and
\* export, each called when the one before returned.  stages lists the calls
\* that returned.
AfterExport(s4) ==
    [out |-> s4,
     stages |-> IF s4.err # NoError
                THEN {"load", "segment", "extract_surface"}
                ELSE {"load", "segment", "extract_surface", "export"}]

AfterExtract(s3, output) ==
    IF s3.err # NoError
    THEN [out |-> s3, stages |-> {"load", "segment"}]
    ELSE AfterExport(export(s3.conv, s3.disk, output, "stl"))

AfterSegment(vtk, s2, output) ==
    IF s2.err # NoError
    THEN [out |-> s2, stages |-> {"load"}]
    ELSE AfterExtract(extract_surface(vtk, s2.conv, s2.disk, SimplifyDefault,
                                      SmoothDefault), output)

AfterLoad(vtk, s1, output) ==
    IF s1.err # NoError
    THEN [out |-> s1, stages |-> {}]
    ELSE AfterSegment(vtk, segment(s1.conv, s1.disk, "otsu", None, NoKwargs), output)

convert_fast(vtk, c, d, read, output) == AfterLoad(vtk, load(c, d, read), output)

\* ======================================================================
\* State.
\* ======================================================================
VARIABLES
    \* Direct calls of the segmentation functions: the call and what it returned.
    call, ret,
    \* A series load (read_dicom_series or read_png_series): the directory
    \* listing, the arguments, the list of files being read, the result of
    \* each read so far, the place in the function, and what it returned.
    listing, series, files, results, pc, loaded,
    \* One Medical3DConverter and its caller: whether the vtk import succeeded,
    \* the converter's fields, the files on disk, the last call made on the
    \* converter with its outcome, the stages that have returned normally so
    \* far, and the number of calls made.
    VTK_AVAILABLE, conv, disk, last, succeeded, calls,
    \* The API server: the POST /api/convert requests being handled (each
    \* with its place in convert_image, its converter and its response), and
    \* the files of UPLOAD_FOLDER and of OUTPUT_FOLDER.
    reqs, uploads, outputs

segVars == <<call, ret>>
seriesVars == <<listing, series, files, results, pc, loaded>>
convVars == <<VTK_AVAILABLE, conv, disk, last, succeeded, calls>>
apiVars == <<reqs, uploads, outputs>>
vars == <<call, ret, listing, series, files, results, pc, loaded,
          VTK_AVAILABLE, conv, disk, last, succeeded, calls,
          reqs, uploads, outputs>>

SegIdle == call = [fn |-> "none"] /\ ret = None
SeriesIdle == /\ listing = <<>> /\ series = [fn |-> "none"] /\ files = <<>>
              /\ results = <<>> /\ pc = "idle" /\ loaded = None
ConvIdle == /\ VTK_AVAILABLE = TRUE /\ conv = NewConverter /\ disk = {}
            /\ last = [op |-> "none"] /\ succeeded = {} /\ calls = 0
ApiIdle == reqs = <<>> /\ uploads = {} /\ outputs = {}

\* ---------------------------------------- the segmentation functions alone
\* Inputs of fast_region_growing: the voxels of a 2 x 2 x 2 window at the
\* centre are bright or dark, one face neighbour of the window is grey or dark.
Dark == 0
Grey == 4
Bright == 9

Window == {Vox(ZOf(CentreVoxel) + a, YOf(CentreVoxel) + b, XOf(CentreVoxel) + c) :
             a \in {0, 1}, b \in {0, 1}, c \in {0, 1}}

GreyVoxel == Vox(ZOf(CentreVoxel) - 1, YOf(CentreVoxel), XOf(CentreVoxel))

WindowVolume(B, g) ==
    [v \in Voxels |-> IF v \in B THEN Bright ELSE IF v = GreyVoxel THEN g ELSE Dark]

RegionGrowingCalls ==
    {[fn |-> "fast_region_growing", volume |-> WindowVolume(B, g),
      seed_point |-> s, tolerance |-> t] :
        B \in SUBSET Window, g \in {Dark, Grey},
        s \in {None, Some(MaxOf(Window))}, t \in {-1, 0, 5}}

\* Inputs of morphological_cleanup: unions of crosses centred on the line
\* through the grid along z, with any minimum size from 1 to 3.
CentreLine == {v \in Voxels : /\ YOf(v) = DimY \div 2 /\ XOf(v) = DimX \div 2
                              /\ ZOf(v) >= 1 /\ ZOf(v) <= DimZ - 2}

CleanupCalls ==
    {[fn |-> "morphological_cleanup", mask |-> UNION {Cross[v] : v \in C},
      remove_small |-> r] :
        C \in SUBSET CentreLine, r \in 1 .. 3}

InitSeg == /\ call \in RegionGrowingCalls \cup CleanupCalls
           /\ ret = None
           /\ SeriesIdle
           /\ ConvIdle
           /\ ApiIdle

CallRegionGrowing ==
    /\ call.fn = "fast_region_growing"
    /\ ret = None
    /\ ret' = Some(Ok(fast_region_growing(call.volume, call.seed_point, call.tolerance)))
    /\ UNCHANGED <<call, seriesVars, convVars, apiVars>>

CallCleanup ==
    /\ call.fn = "morphological_cleanup"
    /\ ret = None
    /\ ret' = Some(morphological_cleanup(call.mask, call.remove_small))
    /\ UNCHANGED <<call, seriesVars, convVars, apiVars>>

NextSeg == CallRegionGrowing \/ CallCleanup

SpecSeg == InitSeg /\ [][NextSeg]_vars


\* ------------------------------------------------------- the series loads
\* The files a directory may hold: DICOM slices whose positions run against
\* their names, with and without a rescale and a position, a corrupt DICOM
\* file, and PNG images, one of them corrupt.
Catalogue ==
    { File(1, "img1.png", ".png", FALSE, TRUE, None, 1, None),
      File(2, "img2.png", ".png", FALSE, FALSE, None, 0, None),
      File(3, "img3.png", ".png", FALSE, TRUE, None, 0, None),
      File(4, "s1.dcm", ".dcm", TRUE, FALSE, Some(3), 5, Some(<<2, 1>>)),
      File(5, "s2.dcm", ".dcm", TRUE, FALSE, Some(1), 7, None),
      File(6, "s3", "", TRUE, FALSE, Some(2), 3, Some(<<1, 0>>)),
      File(7, "s4.dcm", ".dcm", FALSE, FALSE, None, 0, None),
      File(8, "s5", "", TRUE, FALSE, None, 4, Some(<<3, 2>>)) }

\* The most files a directory of the model holds.
MaxFiles == 3
\* The largest slice cap of the model.
MaxCap == 2

\* A directory lists its files in an order of its own.
Listings ==
    UNION {{l \in [1 .. n -> Catalogue] : \A i, j \in 1 .. n : i # j => l[i] # l[j]} :
             n \in 0 .. MaxFiles}

SeriesCalls ==
    {[fn |-> f, max_slices |-> m] :
        f \in {"read_dicom_series", "read_png_series"}, m \in 1 .. MaxCap}

InitSeries == /\ listing \in Listings
              /\ series \in SeriesCalls
              /\ files = <<>>
              /\ results = <<>>
              /\ pc = "start"
              /\ loaded = None
              /\ SegIdle
              /\ ConvIdle
              /\ ApiIdle

\* The reads not yet picked up by one of the pool's workers wait their turn.
Running(k) == /\ k \in 1 .. Len(files)
              /\ results[k] = None
              /\ Cardinality({j \in 1 .. (k - 1) : results[j] = None}) < MaxWorkers

AllRead == \A k \in 1 .. Len(files) : results[k] # None

\* read_dicom_series up to the submission of the reads.
DicomGlob ==
    /\ pc = "start"
    /\ series.fn = "read_dicom_series"
    /\ files' = DicomFiles(listing)
    /\ results' = [k \in 1 .. Len(DicomFiles(listing)) |-> None]
    /\ pc' = "read"
    /\ UNCHANGED <<listing, series, loaded, segVars, convVars, apiVars>>

\* One read of the pool completes, in any order.
DicomRead(k) ==
    /\ pc = "read"
    /\ series.fn = "read_dicom_series"
    /\ Running(k)
    /\ results' = [results EXCEPT ![k] = Some(read_single_dicom(files[k]))]
    /\ UNCHANGED <<listing, series, files, pc, loaded, segVars, convVars, apiVars>>

\* read_dicom_series once every read has completed.
DicomStack ==
    /\ pc = "read"
    /\ series.fn = "read_dicom_series"
    /\ AllRead
    /\ loaded' = Some(StackDicom([k \in 1 .. Len(files) |-> Val(results[k])],
                                 series.max_slices))
    /\ pc' = "done"
    /\ UNCHANGED <<listing, series, files, results, segVars, convVars, apiVars>>

\* read_png_series up to the submission of the reads.
PngGlob ==
    /\ pc = "start"
    /\ series.fn = "read_png_series"
    /\ IF glob(listing, ".png") = <<>>
       THEN /\ loaded' = Some(Raise(ErrNoPng))
            /\ pc' = "done"
            /\ UNCHANGED <<files, results>>
       ELSE /\ files' = PngFiles(listing, series.max_slices)
            /\ results' = [k \in 1 .. Len(PngFiles(listing, series.max_slices)) |-> None]
            /\ pc' = "read"
            /\ UNCHANGED loaded
    /\ UNCHANGED <<listing, series, segVars, convVars, apiVars>>

PngRead(k) ==
    /\ pc = "read"
    /\ series.fn = "read_png_series"
    /\ Running(k)
    /\ results' = [results EXCEPT ![k] = Some(read_png(files[k]))]
    /\ UNCHANGED <<listing, series, files, pc, loaded, segVars, convVars, apiVars>>

\* list(executor.map(...)) takes the results in the order of the files: it
\* ends when every read has completed, or raises at the first failed read it
\* comes to.
PngStack ==
    /\ pc = "read"
    /\ series.fn = "read_png_series"
    /\ LET got == {k \in 1 .. Len(files) : \A j \in 1 .. k : results[j] # None}
       IN  /\ \/ AllRead
              \/ \E k \in got : Val(results[k]).err # NoError
           /\ loaded' = Some(StackPng(SubSeq(files, 1, Cardinality(got)),
                                      [k \in 1 .. Cardinality(got) |-> Val(results[k])]))
    /\ pc' = "done"
    /\ UNCHANGED <<listing, series, files, results, segVars, convVars, apiVars>>

NextSeries ==
    \/ DicomGlob
    \/ \E k \in 1 .. Len(files) : DicomRead(k)
    \/ DicomStack
    \/ PngGlob
    \/ \E k \in 1 .. Len(files) : PngRead(k)
    \/ PngStack

SpecSeries == InitSeries /\ [][NextSeries]_vars


\* ----------------------------------------------------------- the converter
\* The volumes a reader may hand to the converter: an all-dark volume, a
\* bright 2 x 2 x 2 block (too thin to survive the opening), and bright
\* bodies along the centre line of which the cleanup finds the first one
\* smaller (SplitVolume) or larger (FloodVolume) than its minimum size.
ZeroVolume == [v \in Voxels |-> Dark]
ThinVolume == WindowVolume(Window, Dark)
BodiesAt(Z) ==
    [v \in Voxels |->
        IF \E z \in Z : v \in Cross[Vox(z, DimY \div 2, DimX \div 2)]
        THEN Bright ELSE Dark]
SplitVolume == BodiesAt({1, 5})
FloodVolume == BodiesAt({2, 6})

Reading(volume, spacing) == Ok([volume |-> volume, spacing |-> spacing])

ImageReads == {Reading(v, <<1, 1, 1>>) : v \in {ZeroVolume, ThinVolume, SplitVolume}}
                 \cup {Raise(ErrDecode)}
PngReads == {Reading(FloodVolume, <<1, 1, 1>>), Raise(ErrNoPng)}
DicomReads == {Reading(v, <<1, 1, 1>>) : v \in {SplitVolume, ThinVolume}}
                 \cup {Raise(ErrNoDicom)}

SegmentArgs ==
    {[method |-> "otsu", threshold |-> None, kwargs |-> NoKwargs],
     [method |-> "threshold", threshold |-> Some(Grey), kwargs |-> NoKwargs],
     [method |-> "region_growing", threshold |-> None,
      kwargs |-> [seed_point |-> Some(MinOf(Window)), tolerance |-> 5]]}

ExtractArgs == [simplify : {0, SimplifyDefault}, smooth_iterations : {0, SmoothDefault}]

ExportArgs == {[filename |-> [base |-> <<"model">>, ext |-> e], format |-> f] :
                 e \in {".stl"}, f \in {"stl", "obj", "ply"}}

\* The most calls made on the converter.
MaxCalls == 4

InitConv == /\ VTK_AVAILABLE \in BOOLEAN
            /\ conv = NewConverter
            /\ disk = {}
            /\ last = [op |-> "none"]
            /\ succeeded = {}
            /\ calls = 0
            /\ SegIdle
            /\ SeriesIdle
            /\ ApiIdle

\* What the converter held and what the disk held when a call was made.
Had == [volume |-> conv.volume # None, mask |-> conv.mask # None,
        mesh |-> conv.vertices # None, files |-> disk]

\* A call on the converter ends: its outcome becomes the state.
Called(op, args, out, stages) ==
    /\ calls < MaxCalls
    /\ conv' = out.conv
    /\ disk' = out.disk
    /\ last' = [op |-> op, args |-> args, err |-> out.err, stages |-> stages,
                had |-> Had]
    /\ succeeded' = succeeded \cup stages
    /\ calls' = calls + 1
    /\ UNCHANGED <<VTK_AVAILABLE, segVars, seriesVars, apiVars>>

\* A call of one stage ends.
Returned(op, args, out, stage) ==
    Called(op, args, out, IF out.err = NoError THEN {stage} ELSE {})

LoadDicom ==
    \E read \in DicomReads :
        Returned("load_dicom", <<>>, load(conv, disk, read), "load")

LoadPng ==
    \E read \in PngReads :
        Returned("load_png", <<>>, load(conv, disk, read), "load")

LoadImage ==
    \E read \in ImageReads :
        Returned("load_image", <<>>, load(conv, disk, read), "load")

Segment ==
    \E a \in SegmentArgs :
        Returned("segment", a, segment(conv, disk, a.method, a.threshold, a.kwargs),
                 "segment")

ExtractSurface ==
    \E a \in ExtractArgs :
        Returned("extract_surface", a,
                 extract_surface(VTK_AVAILABLE, conv, disk, a.simplify,
                                 a.smooth_iterations),
                 "extract_surface")

Export ==
    \E a \in ExportArgs :
        Returned("export", a, export(conv, disk, a.filename, a.format), "export")

\* The run of convert_fast ends.
Ran(run) == Called("convert_fast", <<>>, run.out, run.stages)

ConvertFast ==
    \E read \in ImageReads :
        Ran(convert_fast(VTK_AVAILABLE, conv, disk, read,
                         [base |-> <<"model">>, ext |-> ".stl"]))

NextConv ==
    \/ LoadDicom
    \/ LoadPng
    \/ LoadImage
    \/ Segment
    \/ ExtractSurface
    \/ Export
    \/ ConvertFast

SpecConv == InitConv /\ [][NextConv]_vars


\* ----------------------------------------------------------- the API server
\* The defaults of convert_image: simplify = 0.3 (in percent) and smooth = 20.
ApiSimplifyDefault == 30
ApiSmoothDefault == 20

\* The requests handled at the same time.
MaxRequests == 2

\* The parameters a request carries in its query string or in its JSON body:
\* each is there or not.
NoParams == [threshold |-> None, simplify |-> None, smooth |-> None, format |-> None]
CustomParams == [threshold |-> Some(Grey), simplify |-> Some(0), smooth |-> Some(0),
                 format |-> Some("obj")]
FormatOnly(format) == [NoParams EXCEPT !.format = Some(format)]

\* A request: its route, how its input comes (a file of the form, a base64
\* field of the JSON body, a JSON body with a folder_path, or not at all),
\* the name the upload or the folder carries (None: no name, or no directory
\* of that name), the image uploaded, given as the volume read_single_image
\* makes of it, what read_dicom_series makes of the folder, and the
\* parameters of the query string and of the JSON body.
Request(route, upload, filename, image, folder, args, json) ==
    [route |-> route, upload |-> upload, filename |-> filename, image |-> image,
     folder |-> folder, args |-> args, json |-> json]

ScanPng == [base |-> <<"scan">>, ext |-> ".png"]
SeriesFolder == [base |-> <<"series">>, ext |-> ""]

\* POST /api/convert requests.
ConvertRequests ==
    {Request("convert", "file", None, SplitVolume, Raise(ErrNoDicom), NoParams, NoParams),
     Request("convert", "file", None, FloodVolume, Raise(ErrNoDicom), NoParams, NoParams),
     Request("convert", "file", Some(ScanPng), SplitVolume, Raise(ErrNoDicom),
             CustomParams, NoParams),
     Request("convert", "file", Some(ScanPng), FloodVolume, Raise(ErrNoDicom),
             FormatOnly("STL"), NoParams),
     Request("convert", "file", None, SplitVolume, Raise(ErrNoDicom),
             FormatOnly("ply"), NoParams),
     Request("convert", "base64", None, SplitVolume, Raise(ErrNoDicom),
             NoParams, CustomParams),
     Request("convert", "none", None, SplitVolume, Raise(ErrNoDicom), NoParams, NoParams)}

\* POST /api/convert-dicom-folder requests.
FolderRequests ==
    {Request("convert-dicom-folder", "json", Some(SeriesFolder), SplitVolume,
             Reading(SplitVolume, <<1, 1, 1>>), NoParams, CustomParams),
     Request("convert-dicom-folder", "json", Some(SeriesFolder), SplitVolume,
             Raise(ErrNoDicom), NoParams, NoParams),
     Request("convert-dicom-folder", "json", None, SplitVolume,
             Raise(ErrNoDicom), NoParams, NoParams),
     Request("convert-dicom-folder", "none", None, SplitVolume,
             Raise(ErrNoDicom), NoParams, NoParams)}

\* The handler's threshold, simplify, smooth and output_format before they
\* are assigned.
Unassigned == [threshold |-> None, simplify |-> 0, smooth |-> 0, format |-> ""]

InitApi == /\ reqs \in [1 .. MaxRequests ->
                          {[request |-> q, at |-> "save", filename |-> None,
                            params |-> Unassigned,
                            converter |-> NewConverter, response |-> None] :
                              q \in ConvertRequests \cup FolderRequests}]
           /\ uploads = {}
           /\ outputs = {}
           /\ SegIdle
           /\ SeriesIdle
           /\ ConvIdle

\* dict.get(key, default).
Get(opt, default) == IF opt = None THEN default ELSE Val(opt)

\* The parameters read from a dictionary of them, with the defaults of the
\* handlers.
ParamsOf(given) ==
    [threshold |-> given.threshold,
     simplify |-> Get(given.simplify, ApiSimplifyDefault),
     smooth |-> Get(given.smooth, ApiSmoothDefault),
     format |-> Get(given.format, "stl")]

\* convert_image: request.args.get(...) for each parameter.
QueryParams(request) == ParamsOf(request.args)

\* convert_dicom_folder: request.json.get(...) for each parameter.
BodyParams(request) == ParamsOf(request.json)

\* filename = file.filename or 'upload.png'.
UploadName(request) ==
    IF request.filename = None THEN [base |-> <<"upload">>, ext |-> ".png"]
    ELSE Val(request.filename)

\* "." + output_format, for the format names of the model.
Dot(format) ==
    IF format = "stl" THEN ".stl" ELSE IF format = "obj" THEN ".obj"
    ELSE IF format = "STL" THEN ".STL" ELSE IF format = "OBJ" THEN ".OBJ"
    ELSE IF format = "ply" THEN ".ply"
    ELSE "."

\* output_filename = f"{base_name}_3d.{output_format}".
OutputName(filename, format) ==
    [base |-> Append(filename.base, "_3d"), ext |-> Dot(format)]

\* The file of that name in a folder.
FileAt(folder, name) == CHOOSE f \in folder : f.name = name

\* read_single_image on the file the path names at the time of the read.
read_single_image(folder, name) == Reading(FileAt(folder, name).content, <<1, 1, 1>>)

\* The handlers from 'converter = Medical3DConverter()' to extract_surface:
\* the load, segment (by the threshold when there is one, by Otsu's
\* otherwise) and extract_surface, each called when the one before returned.
ApiSegmented(vtk, s2, params) ==
    IF s2.err # NoError THEN s2
    ELSE extract_surface(vtk, s2.conv, s2.disk, params.simplify, params.smooth)

ApiLoaded(vtk, s1, params) ==
    IF s1.err # NoError THEN s1
    ELSE ApiSegmented(vtk,
                      segment(s1.conv, s1.disk,
                              IF params.threshold = None THEN "otsu" ELSE "threshold",
                              params.threshold, NoKwargs),
                      params)

ApiConverted(vtk, read, params) == ApiLoaded(vtk, load(NewConverter, {}, read), params)

\* A failure answered as a success.
FailureAsSuccess(e) == Some([status |-> 200, error |-> e])

\* jsonify(...) with its status.
Success(output_filename) == Some([status |-> 200, output_file |-> output_filename])
Failure(e) == Some([status |-> 500, error |-> e])
BadRequest(e) == Some([status |-> 400, error |-> e])

\* The required input of a request is not there: no image for
\* /api/convert, no JSON body or no directory at folder_path for
\* /api/convert-dicom-folder.
InputMissing(request) ==
    \/ request.upload = "none"
    \/ request.route = "convert-dicom-folder" /\ request.filename = None

\* return jsonify({'error': ...}), 400.
Reject(r) ==
    /\ reqs[r].at = "save"
    /\ InputMissing(reqs[r].request)
    /\ reqs' = [reqs EXCEPT ![r].at = "done",
                            ![r].response =
                                BadRequest(IF reqs[r].request.route = "convert"
                                           THEN "No image provided"
                                           ELSE IF reqs[r].request.upload = "none"
                                           THEN "JSON body required"
                                           ELSE "Valid folder_path required")]
    /\ UNCHANGED <<uploads, outputs, segVars, seriesVars, convVars>>

\* convert_image down to file.save(filepath) or f.write(image_bytes): the
\* parameters are read from the query string and the upload is written under
\* its name in UPLOAD_FOLDER.
SaveUpload(r) ==
    /\ reqs[r].at = "save"
    /\ reqs[r].request.route = "convert"
    /\ ~InputMissing(reqs[r].request)
    /\ uploads' = Written(uploads, [name |-> UploadName(reqs[r].request),
                                    content |-> reqs[r].request.image])
    /\ reqs' = [reqs EXCEPT ![r].at = "convert",
                            ![r].params = QueryParams(reqs[r].request),
                            ![r].filename = Some(UploadName(reqs[r].request))]
    /\ UNCHANGED <<outputs, segVars, seriesVars, convVars>>

\* convert_dicom_folder down to 'converter = Medical3DConverter()': the
\* folder is checked and the parameters are read from the JSON body.
OpenFolder(r) ==
    /\ reqs[r].at = "save"
    /\ reqs[r].request.route = "convert-dicom-folder"
    /\ ~InputMissing(reqs[r].request)
    /\ reqs' = [reqs EXCEPT ![r].at = "convert",
                            ![r].params = BodyParams(reqs[r].request),
                            ![r].filename = reqs[r].request.filename]
    /\ UNCHANGED <<uploads, outputs, segVars, seriesVars, convVars>>

\* The conversion of a request ends: the handler goes on to the export, or
\* answers 500 with the exception.
Converted(r, out) ==
    /\ reqs' = IF out.err # NoError
               THEN [reqs EXCEPT ![r].at = "done", ![r].response = Failure(out.err)]
               ELSE [reqs EXCEPT ![r].at = "export", ![r].converter = out.conv]
    /\ UNCHANGED <<uploads, outputs, segVars, seriesVars, convVars>>

\* What the handler loads: the upload as the file is at the time of the
\* read, or the DICOM folder.
Loaded(r) ==
    IF reqs[r].request.route = "convert"
    THEN read_single_image(uploads, Val(reqs[r].filename))
    ELSE reqs[r].request.folder

\* converter.load_image(filepath) or load_dicom(folder_path), segment and
\* extract_surface.
Convert(r) ==
    /\ reqs[r].at = "convert"
    /\ Converted(r, ApiConverted(VTK_AVAILABLE, Loaded(r), reqs[r].params))

\* The export of a request ends.
Exported(r, out) ==
    /\ outputs' = out.disk
    /\ reqs' = IF out.err # NoError
               THEN [reqs EXCEPT ![r].at = "done", ![r].response = Failure(out.err)]
               ELSE [reqs EXCEPT ![r].at = "respond"]
    /\ UNCHANGED <<uploads, segVars, seriesVars, convVars>>

\* converter.export(output_path, format = output_format) into OUTPUT_FOLDER.
ExportModel(r) ==
    /\ reqs[r].at = "export"
    /\ Exported(r, export(reqs[r].converter, outputs,
                          OutputName(Val(reqs[r].filename), reqs[r].params.format),
                          reqs[r].params.format))

\* os.path.getsize(output_path) and return jsonify({'success': True,
\* 'output_file': output_filename, ...}); getsize raises when the file is
\* not there.
Respond(r) ==
    /\ reqs[r].at = "respond"
    /\ reqs' = [reqs EXCEPT ![r].at = "done",
                            ![r].response =
                                IF \E f \in outputs :
                                      f.name = OutputName(Val(reqs[r].filename),
                                                          reqs[r].params.format)
                                THEN Success(OutputName(Val(reqs[r].filename),
                                                        reqs[r].params.format))
                                ELSE Failure("No such file or directory")]
    /\ UNCHANGED <<uploads, outputs, segVars, seriesVars, convVars>>

NextApi ==
    \E r \in 1 .. MaxRequests :
        \/ Reject(r)
        \/ SaveUpload(r)
        \/ OpenFolder(r)
        \/ Convert(r)
        \/ ExportModel(r)
        \/ Respond(r)

SpecApi == InitApi /\ [][NextApi]_vars


\* ------------------------------------------- export_stl and /api/preview
\* range(min(num_triangles, 100000)).
PreviewLimit == 100000

NotFound == [status |-> 404, error |-> "File not found"]

\* struct.error, raised by unpack on fewer bytes than the format asks for.
ErrUnpack == "unpack requires a buffer of 4 bytes"

\* x, y, z = struct.unpack('fff', f.read(12)), the twelve bytes after `at`.
ReadVertex(bytes, at) ==
    [c \in 1 .. 3 |-> UnpackFloat(SubSeq(bytes, at + 4 * c - 3, at + 4 * c))]

\* The loop with the vertices read from where the record starts.
ParseTrianglesFromNormal(bytes, n) ==
    IF Len(bytes) < 84 + 50 * n - 2 THEN [status |-> 500, error |-> ErrUnpack]
    ELSE [status |-> 200,
          vertices |-> [j \in 1 .. 3 * n |->
                          ReadVertex(bytes, 84 + 50 * ((j - 1) \div 3)
                                                + 12 * ((j - 1) % 3))],
          faces |-> [k \in 1 .. n |-> <<3 * k - 3, 3 * k - 2, 3 * k - 1>>]]

\* The loop of preview_model over n records: twelve bytes of normal skipped,
\* three vertices read, two bytes of attribute skipped; faces number the
\* vertices read in threes.
ParseTriangles(bytes, n) ==
    IF Len(bytes) < 84 + 50 * n - 2 THEN [status |-> 500, error |-> ErrUnpack]
    ELSE [status |-> 200,
          vertices |-> [j \in 1 .. 3 * n |->
                          ReadVertex(bytes, 84 + 50 * ((j - 1) \div 3) + 12
                                                + 12 * ((j - 1) % 3))],
          faces |-> [k \in 1 .. n |-> <<3 * k - 3, 3 * k - 2, 3 * k - 1>>]]

\* The body of preview_model on the bytes of the file: 80 bytes of header
\* skipped, the number of triangles unpacked, the loop.
ParseStl(bytes) ==
    IF Len(bytes) < 84 THEN [status |-> 500, error |-> ErrUnpack]
    ELSE ParseTriangles(bytes, MinOf({UnpackUint(SubSeq(bytes, 81, 84)), PreviewLimit}))

\* GET /api/preview/<filename>.
preview_model(folder, filename) ==
    IF \A f \in folder : f.name # filename THEN NotFound
    ELSE ParseStl(FileAt(folder, filename).content.bytes)

\* Meshes to export: three vertices out of a few positions in the plane
\* z = 0 or close to it, some beyond 2^24 where float32 has no odd numbers,
\* one relaxed, and up to MaxFaces faces over them.
MaxFaces == 2

StlPositions ==
    {[at |-> <<0, 0, 0>>, relaxed |-> 0],
     [at |-> <<0, 1, 0>>, relaxed |-> 0],
     [at |-> <<0, 0, 2>>, relaxed |-> 1],
     [at |-> <<0, 16777217, 0>>, relaxed |-> 0],
     [at |-> <<3, 33554438, 0>>, relaxed |-> 0]}

StlFaces == {<<0, 1, 2>>, <<2, 0, 1>>}

SeqsUpTo(S, n) == UNION {[1 .. k -> S] : k \in 0 .. n}

StlCalls ==
    [fn : {"export_stl"},
     vertices : [1 .. 3 -> StlPositions],
     faces : SeqsUpTo(StlFaces, MaxFaces),
     filename : {[base |-> <<"model">>, ext |-> ".stl"]}]

InitStl ==
    /\ call \in StlCalls
    /\ ret = None
    /\ SeriesIdle /\ ConvIdle /\ ApiIdle

\* export_stl(vertices, faces, filename) into the output folder.
ExportStl ==
    /\ call.fn = "export_stl"
    /\ outputs = {}
    /\ outputs' = {export_stl(call.vertices, call.faces, call.filename)}
    /\ UNCHANGED <<segVars, seriesVars, convVars, reqs, uploads>>

\* GET /api/preview/model.stl, asked until the file is found.
PreviewModel ==
    /\ call.fn = "export_stl"
    /\ ret = None \/ ret = Some(NotFound)
    /\ ret' = Some(preview_model(outputs, call.filename))
    /\ ret' # ret
    /\ UNCHANGED <<call, seriesVars, convVars, apiVars>>

NextStl == ExportStl \/ PreviewModel

SpecStl == InitStl /\ [][NextStl]_vars

\* ======================================================================
\* Claims.
\* ======================================================================

\* The region of the seed: the voxels within tolerance of the seed's value
\* that a path of such voxels joins to the seed, stepping by the
\* neighbourhood nb.
SeedRegion(volume, seed, tolerance, nb) ==
    LET similar == {v \in Voxels : Abs(volume[v] - volume[seed]) <= tolerance}
    IN  Reach(similar, {seed} \cap similar, nb)

SeedOf(c) == IF c.seed_point = None THEN CentreVoxel ELSE Val(c.seed_point)

RegionGrowingReturned == call.fn = "fast_region_growing" /\ ret # None

\* C8 as stated: with a tolerance that the seed itself meets (>= 0),
\* fast_region_growing returns exactly the voxels within tolerance that are
\* joined to the seed under 26-connectivity (face, edge and corner neighbours).
C8_Region26 ==
    (RegionGrowingReturned /\ call.tolerance >= 0) =>
        Val(ret).val = SeedRegion(call.volume, SeedOf(call), call.tolerance, Cube)

\* C8 amended: with a tolerance >= 0, fast_region_growing returns exactly the
\* voxels within tolerance that are joined to the seed under 6-connectivity
\* (face neighbours only, the default structure of ndimage.label).
C8_Region6 ==
    (RegionGrowingReturned /\ call.tolerance >= 0) =>
        Val(ret).val = SeedRegion(call.volume, SeedOf(call), call.tolerance, Cross)

\* C8 witness: a call returned the face-connected region of the seed where
\* the 26-connected region is strictly larger.
C8_Witness ==
    /\ RegionGrowingReturned
    /\ call.tolerance >= 0
    /\ Val(ret).val = SeedRegion(call.volume, SeedOf(call), call.tolerance, Cross)
    /\ Val(ret).val # SeedRegion(call.volume, SeedOf(call), call.tolerance, Cube)
    /\ Cardinality(Val(ret).val) > 1

\* The voxels of the components of mask that hold at least remove_small voxels.
LargeComponents(mask, remove_small) ==
    LET comps == Components(mask)
    IN  UNION {comps[k] : k \in {i \in 1 .. Len(comps) :
                                   Cardinality(comps[i]) >= remove_small}}

\* C9: when morphological_cleanup returns, a voxel is 1 exactly when it lies
\* in a component of the opened-and-closed mask of at least remove_small
\* voxels (no smaller component kept, no background voxel turned foreground).
C9_OnlyLargeComponents ==
    (call.fn = "morphological_cleanup" /\ ret # None /\ Val(ret).err = NoError) =>
        Val(ret).val = LargeComponents(binary_closing(binary_opening(call.mask)),
                                       call.remove_small)

\* The file of a slice of a loaded series, and the position the slice has.
FileNamed(name) == CHOOSE f \in Catalogue : f.name = name
PositionOf(name) ==
    IF FileNamed(name).position = None THEN 0 ELSE Val(FileNamed(name).position)

SeriesReturned(fn) == series.fn = fn /\ pc = "done" /\ Val(loaded).err = NoError
SeriesEnded == series.fn # "none" /\ pc = "done"

\* C4: whatever the order the directory lists its files in and the order the
\* parallel reads complete in, read_dicom_series stacks the slices in
\* non-decreasing order of slice position.
C4_StackedByPosition ==
    SeriesReturned("read_dicom_series") =>
        LET slices == Val(loaded).val.slices
        IN  \A i, j \in 1 .. Len(slices) :
                i < j => PositionOf(slices[i]) <= PositionOf(slices[j])

\* C4 witness: a series was stacked by ascending position although its file
\* names sort the other way round.
C4_Witness ==
    /\ SeriesReturned("read_dicom_series")
    /\ LET slices == Val(loaded).val.slices
       IN  /\ Len(slices) >= 3
           /\ \A i \in 1 .. (Len(slices) - 1) :
                /\ PositionOf(slices[i]) < PositionOf(slices[i + 1])
                /\ FileNamed(slices[i]).order > FileNamed(slices[i + 1]).order

\* The files of the directory that the loader's patterns match and that decode.
DecodableFiles ==
    IF series.fn = "read_dicom_series"
    THEN {k \in 1 .. Len(listing) : listing[k].dicom}
    ELSE {k \in 1 .. Len(listing) : listing[k].ext = ".png" /\ listing[k].image}

\* C5: a series load (DICOM or image directory) skips the files that do not
\* decode and fails only when no decodable file remains.
C5_FailsOnlyWithoutValidFiles ==
    SeriesEnded => (Val(loaded).err # NoError <=> DecodableFiles = {})

\* C6: the loaded volume never holds more slices than max_slices.
C6_AtMostMaxSlices ==
    (SeriesEnded /\ Val(loaded).err = NoError) =>
        Len(Val(loaded).val.volume) <= series.max_slices

\* C7: every slice of a DICOM volume is its stored value converted by the
\* rescale slope and intercept of its own file, or the stored value when the
\* file carries no rescale.
C7_RescaledPerSlice ==
    SeriesReturned("read_dicom_series") =>
        LET out == Val(loaded).val
        IN  \A k \in 1 .. Len(out.slices) :
                LET f == FileNamed(out.slices[k])
                IN  out.volume[k] =
                        IF f.rescale = None THEN f.pixels
                        ELSE f.pixels * Val(f.rescale)[1] + Val(f.rescale)[2]

\* A converter that holds that volume and nothing else.
Holding(volume, spacing) ==
    [NewConverter EXCEPT !.volume = Some(volume), !.spacing = Some(spacing)]

\* C1: segment() raises while no volume has been loaded, extract_surface()
\* raises while no mask exists, export() raises while no mesh exists; and no
\* stage has returned normally unless its predecessor stage has returned
\* normally at least once before.
C1_GuardsAndStageOrder ==
    /\ (last.op = "segment" /\ ~last.had.volume) => last.err = ErrLoadFirst
    /\ (last.op = "extract_surface" /\ ~last.had.mask) => last.err = ErrSegmentFirst
    /\ (last.op = "export" /\ ~last.had.mesh) => last.err = ErrExtractFirst
    /\ "segment" \in succeeded => "load" \in succeeded
    /\ "extract_surface" \in succeeded => "segment" \in succeeded
    /\ "export" \in succeeded => "extract_surface" \in succeeded

\* The masks a segment() call leaves behind on a converter holding that
\* volume, whichever its method and whether or not it returned.
MasksOf(volume, spacing) ==
    {segment(Holding(volume, spacing), {}, a.method, a.threshold, a.kwargs).conv.mask :
        a \in SegmentArgs}

\* The converters an extract_surface() call leaves behind when the mask is
\* that one.
MeshesOf(vtk, c, mask) ==
    {extract_surface(vtk, [c EXCEPT !.mask = mask], {}, a.simplify,
                     a.smooth_iterations).conv : a \in ExtractArgs}

\* The files export() writes for the meshes that derive from that volume.
FilesOf(vtk, volume, spacing, filename, format) ==
    UNION {export(m, {}, filename, format).disk :
             m \in UNION {MeshesOf(vtk, Holding(volume, spacing), mask) :
                            mask \in MasksOf(volume, spacing)}}

\* C2: in every reachable state the mask the converter holds was computed
\* from the volume it holds now, the mesh it holds was computed from the mask
\* it holds now, and a file export() has just written holds a mesh that
\* derives from the volume loaded now.
C2_DerivedFromCurrent ==
    /\ conv.mask # None =>
          /\ conv.volume # None
          /\ conv.mask \in MasksOf(Val(conv.volume), Val(conv.spacing))
    /\ conv.vertices # None =>
          /\ conv.mask # None
          /\ \E m \in MeshesOf(VTK_AVAILABLE, conv, conv.mask) :
                m.vertices = conv.vertices /\ m.faces = conv.faces
    /\ (last.op = "export" /\ last.err = NoError) =>
          \E f \in FilesOf(VTK_AVAILABLE, Val(conv.volume), Val(conv.spacing),
                           last.args.filename, last.args.format) : f \in disk

\* The output file a request's own upload converts to.
OwnOutput(vtk, request) ==
    export(ApiConverted(vtk, Reading(request.image, <<1, 1, 1>>),
                        QueryParams(request)).conv, {},
           OutputName(UploadName(request), QueryParams(request).format),
           QueryParams(request).format).disk

\* C3: whatever the interleaving of the POST /convert requests, the output
\* file named in a request's response holds the mesh derived from that
\* request's own upload.
C3_OwnMeshInNamedOutput ==
    \A r \in DOMAIN reqs :
        (/\ reqs[r].request.route = "convert"
         /\ reqs[r].at = "done" /\ Val(reqs[r].response).status = 200) =>
            \E f \in outputs :
                /\ f.name = Val(reqs[r].response).output_file
                /\ f \in OwnOutput(VTK_AVAILABLE, reqs[r].request)

\* The errors that say no data was found.
NoDataErrors == {ErrNoDicom, ErrNoPng}

\* C10: when the volume loaded is degenerate, so that thresholding it leaves
\* no foreground voxel, the pipeline of convert_fast fails with a no-data
\* error, and it writes no file.
C10_DegenerateFailsWithNoData ==
    (/\ last.op = "convert_fast"
     /\ "load" \in last.stages
     /\ threshold_segmentation(Val(conv.volume), None) = {}) =>
        /\ last.err \in NoDataErrors
        /\ disk = last.had.files

\* C11: when the handler of POST /convert calls export() on its converter,
\* which holds a mesh, with a format that is neither 'stl' nor 'obj' in lower
\* case, export() raises the unknown-format error, the request is answered
\* with that error, and the output folder is left as it was.
C11_UnknownFormatRejected ==
    [][\A r \in DOMAIN reqs :
          (/\ reqs[r].at = "export"
           /\ reqs'[r].at # "export"
           /\ lower(reqs[r].params.format) \notin {"stl", "obj"}) =>
              /\ reqs[r].converter.vertices # None
              /\ reqs'[r].response = Failure(ErrUnknownFormat)
              /\ outputs' = outputs]_vars

\* C11 witness: a request asking for an unknown format was converted, then
\* answered with the unknown-format error, while another request's file is in
\* the output folder.
C11_Witness ==
    \E r \in DOMAIN reqs :
        /\ reqs[r].at = "done"
        /\ lower(reqs[r].params.format) \notin {"stl", "obj"}
        /\ reqs[r].response = Failure(ErrUnknownFormat)
        /\ outputs # {}
        /\ \A f \in outputs : f.name.ext # Dot(reqs[r].params.format)

\* C12: a mesh of n faces written by export_stl in binary mode and parsed by
\* /api/preview yields min(n, 100000) triangles, and the three vertices of
\* parsed triangle i are, in order, the float32 values of the positions of
\* the vertices of face i of the mesh.
C12_PreviewReturnsExportedTriangles ==
    (ret # None /\ ret # Some(NotFound)) =>
        /\ Val(ret).status = 200
        /\ Len(Val(ret).faces) = MinOf({Len(call.faces), PreviewLimit})
        /\ Len(Val(ret).vertices) = 3 * Len(Val(ret).faces)
        /\ \A i \in 1 .. Len(Val(ret).faces) : \A j \in 1 .. 3 :
              /\ Val(ret).faces[i][j] = 3 * (i - 1) + j - 1
              /\ Val(ret).vertices[3 * (i - 1) + j]
                    = [c \in 1 .. 3 |->
                         float32(Position(call.vertices[call.faces[i][j] + 1])[c])]

\* C12 witness: a mesh of two different faces, with a coordinate that float32
\* rounds, has been exported and previewed.
C12_Witness ==
    /\ ret # None /\ ret # Some(NotFound)
    /\ Len(call.faces) = 2 /\ call.faces[1] # call.faces[2]
    /\ Len(Val(ret).faces) = 2
    /\ \E k \in 1 .. 3 : float32(Position(call.vertices[k])[2]) # Position(call.vertices[k])[2]
    /\ \A k \in 1 .. 2 : call.vertices[k] # call.vertices[k + 1]

\* The bytes of the exported file.
StlFileBytes == (CHOOSE f \in outputs : TRUE).content.bytes

\* C13: the binary STL file is 80 bytes of header, the number n of faces as
\* four bytes unsigned little-endian, and n records of 50 bytes, each 12
\* bytes of normal, three times 12 bytes of vertex and a two-byte attribute
\* of zero: 84 + 50 n bytes in all.
C13_BinaryLayout ==
    (call.fn = "export_stl" /\ outputs # {}) =>
        /\ Len(StlFileBytes) = 84 + 50 * Len(call.faces)
        /\ SubSeq(StlFileBytes, 1, 80) = StlHeader
        /\ StlFileBytes[81] + 256 * StlFileBytes[82] + 65536 * StlFileBytes[83]
              + 16777216 * StlFileBytes[84] = Len(call.faces)
        /\ \A k \in 1 .. Len(call.faces) :
              /\ SubSeq(StlFileBytes, 84 + 50 * k - 49, 84 + 50 * k - 38)
                    = Float32x3(UnitNormal(TrianglesOf(call.vertices, call.faces)[k]))
              /\ \A j \in 1 .. 3 :
                    SubSeq(StlFileBytes, 84 + 50 * k - 37 + 12 * (j - 1),
                           84 + 50 * k - 26 + 12 * (j - 1))
                        = Float32x3(Position(call.vertices[call.faces[k][j] + 1]))
              /\ StlFileBytes[84 + 50 * k - 1] = 0
              /\ StlFileBytes[84 + 50 * k] = 0

\* C13 witness: a file of two records has been written.
C13_Witness ==
    /\ call.fn = "export_stl" /\ outputs # {}
    /\ Len(call.faces) = 2
    /\ Len(StlFileBytes) = 184

\* The OBJ file the last call of export wrote.
ObjWritten == FileAt(disk, WithSuffix(last.args.filename, ".obj")).content

\* C14: in the OBJ file export() writes from a mesh of extract_surface, with
\* or without decimation and smoothing, every index of a face line is at least
\* 1 and at most the number of 'v' lines, and face line k names the three
\* vertices of face k of the mesh, each index shifted by +1.
C14_ObjIndicesFromOne ==
    (last.op = "export" /\ last.err = NoError /\ lower(last.args.format) = "obj") =>
        /\ Len(ObjWritten.v) = Len(Val(conv.vertices))
        /\ Len(ObjWritten.f) = Len(Val(conv.faces))
        /\ \A k \in 1 .. Len(ObjWritten.f) : \A i \in 1 .. 3 :
              /\ ObjWritten.f[k][i] \in 1 .. Len(ObjWritten.v)
              /\ ObjWritten.f[k][i] = Val(conv.faces)[k][i] + 1
              /\ ObjWritten.v[ObjWritten.f[k][i]]
                    = Val(conv.vertices)[Val(conv.faces)[k][i] + 1]

\* C14 witness: an OBJ file of a decimated and smoothed mesh with faces has
\* been written.
C14_Witness ==
    /\ last.op = "export" /\ last.err = NoError /\ lower(last.args.format) = "obj"
    /\ VTK_AVAILABLE
    /\ Len(ObjWritten.f) >= 2
    /\ \E k \in 1 .. Len(ObjWritten.v) : ObjWritten.v[k].relaxed > 0
    /\ \E k \in 1 .. Len(ObjWritten.f) : ObjWritten.f[k][1] = 1

\* What marching cubes makes of the mask the converter holds.
CubesOfMask == marching_cubes(Val(conv.mask), Val(conv.spacing)).val

\* C15: extract_surface with simplify = 0 and smooth_iterations = 0 leaves
\* the mesh exactly as marching cubes produced it.
C15_NoPostProcessingAtZero ==
    (/\ last.op = "extract_surface" /\ last.err = NoError
     /\ last.args.simplify = 0 /\ last.args.smooth_iterations = 0) =>
        /\ conv.vertices = Some(CubesOfMask.vertices)
        /\ conv.faces = Some(CubesOfMask.faces)
        /\ conv.normals = Some(CubesOfMask.normals)

\* C15 witness: with VTK at hand, extract_surface(simplify = 0,
\* smooth_iterations = 0) has returned a mesh of several faces.
C15_Witness ==
    /\ last.op = "extract_surface" /\ last.err = NoError
    /\ last.args.simplify = 0 /\ last.args.smooth_iterations = 0
    /\ VTK_AVAILABLE
    /\ Len(Val(conv.faces)) >= 2

\* The mesh of marching cubes after simplify_mesh with the simplify of the
\* last call.
DecimatedCubes ==
    simplify_mesh(VTK_AVAILABLE, CubesOfMask.vertices, CubesOfMask.faces,
                  last.args.simplify)

\* C19: in extract_surface with simplify > 0 and smooth_iterations > 0 the
\* decimation runs first and the smoothing then on the decimated vertices and
\* faces; the smoothing changes positions only and leaves the list of faces
\* and the number of vertices.
C19_DecimateThenSmooth ==
    (/\ last.op = "extract_surface" /\ last.err = NoError
     /\ last.args.simplify > 0 /\ last.args.smooth_iterations > 0) =>
        /\ conv.faces = Some(DecimatedCubes.faces)
        /\ Len(Val(conv.vertices)) = Len(DecimatedCubes.vertices)
        /\ conv.vertices = Some(smooth_mesh(VTK_AVAILABLE, DecimatedCubes.vertices,
                                            DecimatedCubes.faces,
                                            last.args.smooth_iterations))
        /\ \A k \in 1 .. Len(Val(conv.vertices)) :
              Val(conv.vertices)[k].at = DecimatedCubes.vertices[k].at

\* C19 witness: with VTK at hand, a mesh has been decimated to fewer faces
\* and then smoothed.
C19_Witness ==
    /\ last.op = "extract_surface" /\ last.err = NoError
    /\ last.args.simplify > 0 /\ last.args.smooth_iterations > 0
    /\ VTK_AVAILABLE
    /\ Len(Val(conv.faces)) >= 1
    /\ Len(Val(conv.faces)) < Len(CubesOfMask.faces)
    /\ Len(Val(conv.vertices)) < Len(CubesOfMask.vertices)
    /\ \E k \in 1 .. Len(Val(conv.vertices)) : Val(conv.vertices)[k].relaxed > 0

\* The parameters of a request as supplied: each from the query string when
\* it is there, otherwise from the JSON body when it is there, otherwise the
\* default.
Supplied(request) ==
    ParamsOf([threshold |-> IF request.args.threshold # None
                            THEN request.args.threshold ELSE request.json.threshold,
              simplify |-> IF request.args.simplify # None
                           THEN request.args.simplify ELSE request.json.simplify,
              smooth |-> IF request.args.smooth # None
                         THEN request.args.smooth ELSE request.json.smooth,
              format |-> IF request.args.format # None
                         THEN request.args.format ELSE request.json.format])

\* C16: for POST /convert, threshold, simplify, smooth and format take
\* effect whether they come as query parameters or as fields of the JSON
\* body, and a parameter supplied in neither place takes its default
\* (simplify 0.3, smooth 20, format 'stl', automatic threshold).
C16_ParamsFromQueryOrBody ==
    \A r \in DOMAIN reqs :
        (reqs[r].request.route = "convert" /\ reqs[r].at # "save"
         /\ ~InputMissing(reqs[r].request)) =>
            /\ reqs[r].params = Supplied(reqs[r].request)
            /\ (reqs[r].at = "done" /\ Val(reqs[r].response).status = 200) =>
                  Val(reqs[r].response).output_file.ext
                      = Dot(Supplied(reqs[r].request).format)

\* The response of a finished request.
ResponseOf(r) == Val(reqs[r].response)

C18_OneSlicePerFile ==
    (/\ SeriesReturned("read_dicom_series")
     /\ Cardinality(DecodableFiles) <= series.max_slices) =>
        /\ Len(Val(loaded).val.volume) = Cardinality(DecodableFiles)
        /\ \A k \in DecodableFiles :
              Cardinality({i \in 1 .. Len(Val(loaded).val.slices) :
                              Val(loaded).val.slices[i] = listing[k].name}) = 1

\* C20: when segment() or extract_surface() raises part-way, the volume, the
\* mask and the mesh of the converter are what they were before the call; so
\* a mask that extract_surface can see has been through the cleanup, and a
\* mesh that export can see has been through the post-processing asked for:
\* the mask changes only in a segment stage that returns, the mesh only in an
\* extract_surface stage that returns.
C20_RaiseLeavesFieldsAlone ==
    [][/\ (last'.op \in {"segment", "extract_surface"} /\ last'.err # NoError) =>
              conv' = conv
       /\ conv'.mask # conv.mask => "segment" \in last'.stages
       /\ (conv'.vertices # conv.vertices \/ conv'.faces # conv.faces) =>
              "extract_surface" \in last'.stages]_vars

\* C21: after every extract_surface() that returns, whatever simplify and
\* smooth_iterations, the converter holds one normal per vertex: normals is
\* as long as vertices, and normal i is the normal of vertex i of the mesh
\* the converter holds.
C21_OneNormalPerVertex ==
    (last.op = "extract_surface" /\ last.err = NoError) =>
        /\ Len(Val(conv.normals)) = Len(Val(conv.vertices))
        /\ \A i \in 1 .. Len(Val(conv.vertices)) :
              Val(conv.normals)[i].of = Val(conv.vertices)[i].at

====
